---- MODULE Spec2Model ----
(***************************************************************************)
(* Configuration resolution and validation of zenodo-deposit               *)
(* (src/zenodo_deposit/config.py) and the command-line group callback that *)
(* uses it (src/zenodo_deposit/cli.py).                                    *)
(*                                                                         *)
(* Python strings that the code inspects character by character (token     *)
(* values, which validate_zenodo_config strips) are sequences of           *)
(* one-character strings.  Python dicts are objects with identity: the     *)
(* variable heap maps a reference to the dict's current content, so that   *)
(* two names for one dict (a cached result handed to two callers) and a    *)
(* copy of it are different things.  A path is Str(n): Str(0) is the empty *)
(* string "", Str(1) the settings file name relative to the current        *)
(* directory, Str(2) the settings file in the home directory, the others   *)
(* are paths a caller passes explicitly.  None is Python's None.           *)
(***************************************************************************)
EXTENDS Integers, Sequences, FiniteSets, TLC

VARIABLES
    fs,        \* the file system: path id -> [exists, valid, doc]
    environ,   \* os.environ: variable name -> value
    heap,      \* dict objects: reference -> (key -> value)
    cache,     \* lru_cache of config_section: entries [key, ref], least recently used first
    last,      \* the last operation performed and what it returned
    usage,     \* history: keys config_section returned for, least recently returned first
    cli,       \* the command-line invocation in progress
    vin,       \* arguments of validate_zenodo_config under test
    vout       \* its outcome

vars == <<fs, environ, heap, cache, last, usage, cli, vin, vout>>

----------------------------------------------------------------------------
(* Bounds of the model *)

\* longest run of blanks put before and after a token value
MaxPad == 1
\* number of explicit paths used to fill the cache in SpecLRU
MaxKeys == 34

----------------------------------------------------------------------------
(* Strings *)

ZAT  == "ZENODO_ACCESS_TOKEN"
ZSAT == "ZENODO_SANDBOX_ACCESS_TOKEN"

\* "Change me"
ChangeMe == <<"C", "h", "a", "n", "g", "e", " ", "m", "e">>

\* the characters str.strip() removes
Whitespace == {" ", "\t", "\n"}

RECURSIVE lstrip(_)
lstrip(s) ==
    IF s # <<>> /\ Head(s) \in Whitespace THEN lstrip(Tail(s)) ELSE s

RECURSIVE rstrip(_)
rstrip(s) ==
    IF s # <<>> /\ s[Len(s)] \in Whitespace
    THEN rstrip(SubSeq(s, 1, Len(s) - 1))
    ELSE s

\* variant: only the leading whitespace removed
strip_left_only(s) == lstrip(s)

\* str.strip()
strip(s) == rstrip(lstrip(s))

----------------------------------------------------------------------------
(* Paths, files and documents *)

None == <<"None", 0>>
Str(n) == <<"str", n>>

\* `if file:` -- None and "" are both false
Truthy(file) == file[1] = "str" /\ file[2] # 0

settings_name == Str(1)
home_settings == Str(2)

EmptyDict == <<>>

Absent == [exists |-> FALSE, valid |-> FALSE, doc |-> EmptyDict]
Invalid == [exists |-> TRUE, valid |-> FALSE, doc |-> EmptyDict]
Valid(d) == [exists |-> TRUE, valid |-> TRUE, doc |-> d]

\* built-in default, config.py lines 10-13
DefaultContent == (ZAT :> ChangeMe) @@ (ZSAT :> ChangeMe)

\* the object default_zenodo names
DefaultRef == 0
default_zenodo == heap[DefaultRef]

\* os.path.exists
exists(fsys, path) ==
    /\ path[1] = "str"
    /\ path[2] \in DOMAIN fsys
    /\ fsys[path[2]].exists

RECURSIVE first_file_that_exists(_, _)
first_file_that_exists(fsys, files) ==
    IF files = <<>> THEN None
    ELSE IF exists(fsys, Head(files)) THEN Head(files)
    ELSE first_file_that_exists(fsys, Tail(files))

----------------------------------------------------------------------------
(* Objects *)

\* the result of a call that raised: a reference that names no object
NoRef == DefaultRef - 1

\* a reference no object has (the smallest one)
NewRef(hp) ==
    CHOOSE n \in 1..(Cardinality(DOMAIN hp) + 1) :
        /\ n \notin DOMAIN hp
        /\ \A m \in 1..(n - 1) : m \in DOMAIN hp

\* variant: no copy made, the same object handed on
deepcopy_alias(hp, r) == [heap |-> hp, ref |-> r]

\* copy.deepcopy of a dict of strings: a new object with the same content
deepcopy(hp, r) ==
    LET n == NewRef(hp) IN [heap |-> hp @@ (n :> hp[r]), ref |-> n]

\* toml.load builds a new dict per section of the document
RECURSIVE LoadSections(_, _, _, _)
LoadSections(hp, doc, todo, config) ==
    IF todo = {} THEN [heap |-> hp, config |-> config]
    ELSE LET s == CHOOSE x \in todo : TRUE
             n == NewRef(hp)
         IN LoadSections(hp @@ (n :> doc[s]), doc, todo \ {s}, config @@ (s :> n))

\* open(path, "rb") and toml.load(f)
toml_load(fsys, hp, path) ==
    IF ~exists(fsys, path)
    THEN [outcome |-> "FileNotFoundError", heap |-> hp, config |-> EmptyDict, source |-> path]
    ELSE IF ~fsys[path[2]].valid
    THEN [outcome |-> "TOMLDecodeError", heap |-> hp, config |-> EmptyDict, source |-> path]
    ELSE LET doc == fsys[path[2]].doc
             ld == LoadSections(hp, doc, DOMAIN doc, EmptyDict)
         IN [outcome |-> "ok", heap |-> ld.heap, config |-> ld.config, source |-> path]

\* variant: the home directory looked at first
candidates_swapped == <<home_settings, settings_name>>

\* the candidates of the discovery, in the order the code lists them
candidates == <<settings_name, home_settings>>

\* read_config_file: the parsed document as section name -> reference
read_config_file(fsys, hp, file) ==
    IF Truthy(file) THEN toml_load(fsys, hp, file)
    ELSE LET first_config == first_file_that_exists(fsys, candidates) IN
         IF first_config # None THEN toml_load(fsys, hp, first_config)
         ELSE LET c == deepcopy(hp, DefaultRef)
              IN [outcome |-> "ok", heap |-> c.heap,
                  config |-> ("zenodo" :> c.ref), source |-> None]

\* the mapping a document is, with the sections' contents in place of references
Content(hp, config) == [s \in DOMAIN config |-> hp[config[s]]]

NoKey == <<None, "">>
NoRead == [done |-> FALSE, outcome |-> "", source |-> None, content |-> EmptyDict]

\* lines 66-68: every key of the section that is in os.environ takes its value
overlay(env, d) ==
    [k \in DOMAIN d |-> IF k \in DOMAIN env THEN env[k] ELSE d[k]]

\* variant: the message without the section name
section_message_anonymous(section) ==
    <<"Section not found in the configuration file">>

\* f"Section {section} not found in the configuration file"
section_message(section) ==
    <<"Section ", section, " not found in the configuration file">>

\* the body of config_section, lines 59-70
config_section_body(fsys, env, hp, file, section) ==
    LET rd == read_config_file(fsys, hp, file)
        read == [done |-> TRUE, outcome |-> rd.outcome, source |-> rd.source,
                 content |-> Content(rd.heap, rd.config)]
    IN
    IF rd.outcome # "ok"
    THEN [outcome |-> rd.outcome, heap |-> hp, ref |-> NoRef, message |-> <<>>,
          read |-> read]
    ELSE IF \/ section \notin DOMAIN rd.config
            \/ DOMAIN rd.heap[rd.config[section]] = {}
    THEN [outcome |-> "ValueError", heap |-> hp, ref |-> NoRef,
          message |-> section_message(section), read |-> read]
    ELSE LET c == deepcopy(rd.heap, rd.config[section])
         IN [outcome |-> "ok",
             heap |-> [c.heap EXCEPT ![c.ref] = overlay(env, c.heap[c.ref])],
             ref |-> c.ref, message |-> <<>>, read |-> read]

----------------------------------------------------------------------------
(* functools.lru_cache(maxsize=32) around config_section, line 51 *)

maxsize == 32

CacheKeys(c) == {c[i].key : i \in 1..Len(c)}
CacheRefs(c) == {c[i].ref : i \in 1..Len(c)}
IndexOf(c, key) == CHOOSE i \in 1..Len(c) : c[i].key = key
Without(s, i) == SubSeq(s, 1, i - 1) \o SubSeq(s, i + 1, Len(s))

\* a hit makes the entry the most recently used one
lru_hit(c, key) ==
    LET i == IndexOf(c, key) IN Without(c, i) \o <<c[i]>>

\* variant: the cache counted full one entry early
lru_store_early(c, entry) ==
    (IF Len(c) + 1 >= maxsize THEN Tail(c) ELSE c) \o <<entry>>

\* a miss whose call returned stores the result, in place of the least
\* recently used entry when the cache is full
lru_store(c, entry) ==
    (IF Len(c) >= maxsize THEN Tail(c) ELSE c) \o <<entry>>

\* history: key is the most recently returned one
Touch(u, key) ==
    (IF \E i \in 1..Len(u) : u[i] = key
     THEN Without(u, CHOOSE i \in 1..Len(u) : u[i] = key)
     ELSE u) \o <<key>>

NoCall(op) ==
    [op |-> op, key |-> NoKey, outcome |-> "", ref |-> NoRef, hit |-> FALSE,
     message |-> <<>>, read |-> NoRead]

(* A reference is an address: which number an object has means nothing.    *)
(* After every step the objects still referred to (default_zenodo, the     *)
(* cached results, the mapping just returned) are kept and numbered by     *)
(* their place in the cache, so that two heaps that differ only in the     *)
(* addresses are one state.                                                *)
Rename(c, r) ==
    IF r = DefaultRef \/ r = NoRef THEN r
    ELSE IF r \in CacheRefs(c)
    THEN CHOOSE i \in 1..Len(c) : c[i].ref = r
    ELSE Len(c) + 1

Settle(c, hp, l) ==
    LET live == ({DefaultRef, l.ref} \cup CacheRefs(c)) \cap DOMAIN hp
    IN [cache |-> [i \in 1..Len(c) |->
                      [key |-> c[i].key, ref |-> Rename(c, c[i].ref)]],
        heap |-> [n \in {Rename(c, r) : r \in live} |->
                      IF n = DefaultRef THEN hp[DefaultRef]
                      ELSE IF n \in 1..Len(c) THEN hp[c[n].ref]
                      ELSE hp[l.ref]],
        last |-> [l EXCEPT !.ref = Rename(c, l.ref)]]

\* config_section(config_file, section), through its cache: what it returns
\* and what it leaves behind
Resolve(file, section) ==
    LET key == <<file, section>>
        hit == key \in CacheKeys(cache)
        b == config_section_body(fs, environ, heap, file, section)
        c1 == IF hit THEN lru_hit(cache, key)
              ELSE IF b.outcome = "ok"
              THEN lru_store(cache, [key |-> key, ref |-> b.ref])
              ELSE cache
        h1 == IF ~hit /\ b.outcome = "ok" THEN b.heap ELSE heap
        l1 == IF hit
              THEN [op |-> "config_section", key |-> key, outcome |-> "ok",
                    ref |-> cache[IndexOf(cache, key)].ref, hit |-> TRUE,
                    message |-> <<>>, read |-> NoRead]
              ELSE [op |-> "config_section", key |-> key, outcome |-> b.outcome,
                    ref |-> b.ref, hit |-> FALSE, message |-> b.message,
                    read |-> b.read]
        s == Settle(c1, h1, l1)
    IN /\ cache' = s.cache
       /\ heap' = s.heap
       /\ last' = s.last
       /\ usage' = IF l1.outcome = "ok" THEN Touch(usage, key) ELSE usage
       /\ UNCHANGED <<fs, environ>>

ConfigSectionCall(file, section) ==
    /\ Resolve(file, section)
    /\ UNCHANGED <<cli, vin, vout>>

\* zenodo_config(config_file), lines 72-76
zenodo_config(file) == Resolve(file, "zenodo")

----------------------------------------------------------------------------
(* The process around the resolver *)

\* the mappings a caller of config_section holds
CallerRefs == (CacheRefs(cache) \cup {last.ref}) \ {NoRef}

\* os.environ[name] = value
SetEnv(name, value) ==
    /\ ~(name \in DOMAIN environ /\ environ[name] = value)
    /\ environ' = [n \in (DOMAIN environ) \cup {name} |->
                      IF n = name THEN value ELSE environ[n]]
    /\ LET s == Settle(cache, heap, NoCall("setenv"))
       IN heap' = s.heap /\ last' = s.last
    /\ UNCHANGED <<fs, cache, usage, cli, vin, vout>>

\* del os.environ[name]
DelEnv(name) ==
    /\ name \in DOMAIN environ
    /\ environ' = [n \in (DOMAIN environ) \ {name} |-> environ[n]]
    /\ LET s == Settle(cache, heap, NoCall("delenv"))
       IN heap' = s.heap /\ last' = s.last
    /\ UNCHANGED <<fs, cache, usage, cli, vin, vout>>

\* a caller writes config[k] = v into a mapping it was returned
CallerMutates(r, k, v) ==
    /\ r \in CallerRefs
    /\ ~(k \in DOMAIN heap[r] /\ heap[r][k] = v)
    /\ LET h1 == [heap EXCEPT ![r] =
                    [x \in (DOMAIN heap[r]) \cup {k} |->
                        IF x = k THEN v ELSE heap[r][x]]]
           s == Settle(cache, h1, [NoCall("mutate") EXCEPT !.ref = r])
       IN heap' = s.heap /\ last' = s.last
    /\ UNCHANGED <<fs, environ, cache, usage, cli, vin, vout>>

----------------------------------------------------------------------------
(* validate_zenodo_config, lines 78-106 *)

\* The error text is an f-string: the key, the mode, and "Config: {config}",
\* the whole mapping rendered with its values.
validate_zenodo_config(dz, config, use_sandbox) ==
    IF use_sandbox
    THEN IF \/ ZSAT \notin DOMAIN config
            \/ config[ZSAT] = <<>>
            \/ strip(config[ZSAT]) = <<>>
            \/ strip(config[ZSAT]) = dz[ZSAT]
         THEN [outcome |-> "ValueError",
               message |-> [key |-> ZSAT,
                            text |-> " is not set or invalid, sandbox being used. Config: ",
                            config |-> config]]
         ELSE [outcome |-> "ok", message |-> <<>>]
    ELSE IF \/ ZAT \notin DOMAIN config
            \/ config[ZAT] = <<>>
            \/ strip(config[ZAT]) = <<>>
            \/ strip(config[ZAT]) = dz[ZAT]
         THEN [outcome |-> "ValueError",
               message |-> [key |-> ZAT,
                            text |-> " is not set or invalid in production environment. Config: ",
                            config |-> config]]
         ELSE [outcome |-> "ok", message |-> <<>>]

\* cli.py line 87: "Invalid configuration: " + str(e)
ClickMessage(e) == [prefix |-> "Invalid configuration: ", error |-> e]

\* validate_zenodo_config(config, use_sandbox) called on the arguments in vin
Validate ==
    /\ vout.outcome = ""
    /\ vout' = validate_zenodo_config(default_zenodo, vin.config, vin.use_sandbox)
    /\ UNCHANGED <<fs, environ, heap, cache, last, usage, cli, vin>>

----------------------------------------------------------------------------
(* The group callback cli(), cli.py lines 65-91, and the sub-commands *)

\* variant: the copy loop of lines 89-91 placed before the validation
cli_outcome_copy_first(sandbox, l, hp) ==
    IF l.outcome # "ok"
    THEN [phase |-> "failed", events |-> <<"resolve">>, exit_code |-> 1,
          message |-> <<l.outcome>>, ctx_obj |-> ("SANDBOX" :> sandbox)]
    ELSE LET config == hp[l.ref]
             v == validate_zenodo_config(hp[DefaultRef], config, sandbox)
         IN IF v.outcome = "ValueError"
            THEN [phase |-> "failed", events |-> <<"resolve", "copy", "validate">>,
                  exit_code |-> 1, message |-> ClickMessage(v.message),
                  ctx_obj |-> config @@ ("SANDBOX" :> sandbox)]
            ELSE [phase |-> "dispatch", events |-> <<"resolve", "copy", "validate">>,
                  exit_code |-> 0, message |-> <<>>,
                  ctx_obj |-> config @@ ("SANDBOX" :> sandbox)]

\* What the callback leaves, given what zenodo_config returned (l, in heap hp):
\* an exception of zenodo_config is not caught and ends the process with
\* status 1; a ValueError of the validation becomes a ClickException (exit
\* status 1); otherwise the configuration is copied into ctx.obj and click
\* goes on to the sub-command.
cli_outcome(sandbox, l, hp) ==
    IF l.outcome # "ok"
    THEN [phase |-> "failed", events |-> <<"resolve">>, exit_code |-> 1,
          message |-> <<l.outcome>>, ctx_obj |-> ("SANDBOX" :> sandbox)]
    ELSE LET config == hp[l.ref]
             v == validate_zenodo_config(hp[DefaultRef], config, sandbox)
         IN IF v.outcome = "ValueError"
            THEN [phase |-> "failed", events |-> <<"resolve", "validate">>,
                  exit_code |-> 1, message |-> ClickMessage(v.message),
                  ctx_obj |-> ("SANDBOX" :> sandbox)]
            ELSE [phase |-> "dispatch", events |-> <<"resolve", "validate", "copy">>,
                  exit_code |-> 0, message |-> <<>>,
                  ctx_obj |-> config @@ ("SANDBOX" :> sandbox)]

\* one invocation of the command line: the group callback
CliGroup(sandbox, config_file) ==
    /\ cli.phase # "dispatch"
    /\ zenodo_config(config_file)
    /\ cli' = cli_outcome(sandbox, last', heap')
    /\ UNCHANGED <<vin, vout>>

\* click runs the sub-command after the group callback has returned; its
\* body (a request to Zenodo) succeeds or fails
Subcommand(ok) ==
    /\ cli.phase = "dispatch"
    /\ cli' = [cli EXCEPT !.phase = "done",
                          !.events = Append(@, "subcommand"),
                          !.exit_code = IF ok THEN 0 ELSE 1]
    /\ UNCHANGED <<fs, environ, heap, cache, last, usage, vin, vout>>

----------------------------------------------------------------------------
(* The resolver in one process: files, environment, callers *)

Tok(c) == <<c>>

DocCwd == "zenodo" :> ((ZAT :> Tok("a")) @@ (ZSAT :> Tok("b")))
DocHome == "zenodo" :> ((ZAT :> Tok("h")))
DocExplicit == ("zenodo" :> ((ZAT :> Tok("x")) @@ (ZSAT :> ChangeMe)))
                   @@ ("empty" :> EmptyDict)

\* the file systems the process may find
FileSystems ==
    {<<Absent, Absent, Valid(DocExplicit)>>,
     <<Absent, Valid(DocHome), Valid(DocExplicit)>>,
     <<Invalid, Valid(DocHome), Valid(DocExplicit)>>,
     <<Valid(DocCwd), Valid(DocHome), Valid(DocExplicit)>>}

\* the config_file arguments: None, a file that exists, one that does not
Files == {None, Str(3), Str(4)}
Sections == {"zenodo", "nonexistent", "empty"}
EnvNames == {ZAT, "FOO"}
EnvChoices == {<<ZAT, Tok("e")>>, <<ZAT, Tok("f")>>, <<"FOO", Tok("e")>>}
MutKeys == {"X"}
MutValues == {Tok("m")}

CliIdle ==
    [phase |-> "idle", events |-> <<>>, exit_code |-> 0, message |-> <<>>,
     ctx_obj |-> EmptyDict]
NoInput == [config |-> EmptyDict, use_sandbox |-> FALSE]
NoOutput == [outcome |-> "", message |-> <<>>]

Init ==
    /\ fs \in FileSystems
    /\ environ = EmptyDict
    /\ heap = (DefaultRef :> DefaultContent)
    /\ cache = <<>>
    /\ usage = <<>>
    /\ last = NoCall("init")
    /\ cli = CliIdle
    /\ vin = NoInput
    /\ vout = NoOutput

Next ==
    \/ \E file \in Files, section \in Sections : ConfigSectionCall(file, section)
    \/ \E nv \in EnvChoices : SetEnv(nv[1], nv[2])
    \/ \E name \in EnvNames : DelEnv(name)
    \/ \E r \in CallerRefs, k \in MutKeys, v \in MutValues : CallerMutates(r, k, v)

Spec == Init /\ [][Next]_vars

----------------------------------------------------------------------------
(* What the last call of config_section was about *)

LastCall == last.op = "config_section"
LastOk == LastCall /\ last.outcome = "ok"
LastFile == last.key[1]
LastSection == last.key[2]

\* the section of the source read_config_file selects now for the last call
SelectedSection ==
    LET rd == read_config_file(fs, heap, LastFile)
    IN Content(rd.heap, rd.config)[LastSection]

\* no explicit path and no settings file: the built-in default is the source
FallsToDefault(file) ==
    /\ ~Truthy(file)
    /\ ~fs[1].exists
    /\ ~fs[2].exists

\* C1 (as claimed): the environment overlay is recomputed on every call, also
\* on a cache hit: every key of a returned mapping that names an environment
\* variable carries the variable's value current at the time of the call.
C1_OverlayRecomputed ==
    LastOk =>
        \A k \in (DOMAIN heap[last.ref]) \cap (DOMAIN environ) :
            heap[last.ref][k] = environ[k]

\* C2 (as claimed): default independence: a resolution that falls through to
\* the built-in default returns a mapping without the key "X" an earlier
\* caller wrote into the mapping it was returned.
C2_DefaultIndependence ==
    (LastOk /\ FallsToDefault(LastFile)) => "X" \notin DOMAIN heap[last.ref]

\* C6 (as claimed): the mapping config_section returns has exactly the keys of
\* the selected section of the source, each with the value of the environment
\* variable of the same name when one is set and the source's value otherwise.
C6_OverlayExistingKeysOnly ==
    LastOk =>
        LET src == SelectedSection
            res == heap[last.ref]
        IN /\ DOMAIN res = DOMAIN src
           /\ \A k \in DOMAIN res :
                 res[k] = IF k \in DOMAIN environ THEN environ[k] ELSE src[k]

\* C8: a call of config_section for a section that is absent from the parsed
\* document raises an error whose message holds the section name, and no
\* mapping is returned (nor cached).
C8_MissingSectionNamed ==
    (LastCall /\ last.read.done /\ last.read.outcome = "ok"
        /\ LastSection \notin DOMAIN last.read.content) =>
        /\ last.outcome = "ValueError"
        /\ \E i \in 1..Len(last.message) : last.message[i] = LastSection
        /\ last.ref = NoRef
        /\ last.key \notin CacheKeys(cache)

\* C8 witness: "nonexistent" was asked of a document holding only [zenodo]
C8_Witness ==
    /\ LastCall
    /\ LastSection = "nonexistent"
    /\ last.read.outcome = "ok"
    /\ DOMAIN last.read.content = {"zenodo"}
    /\ last.outcome = "ValueError"

\* C10: default_zenodo is never mutated in place: it maps both token keys to
\* "Change me" and has no other key, whatever was resolved and whatever the
\* callers wrote into the mappings they were returned.
C10_DefaultNeverMutated ==
    /\ DOMAIN default_zenodo = {ZAT, ZSAT}
    /\ default_zenodo[ZAT] = ChangeMe
    /\ default_zenodo[ZSAT] = ChangeMe

\* C10 witness: a resolution fell through to the default, the environment
\* overlaid its token and a caller wrote "X" into the mapping returned
C10_Witness ==
    /\ last.op = "mutate"
    /\ \E i \in 1..Len(cache) :
          /\ FallsToDefault(cache[i].key[1])
          /\ "X" \in DOMAIN heap[cache[i].ref]
          /\ heap[cache[i].ref][ZAT] = Tok("e")
          /\ heap[cache[i].ref][ZSAT] = ChangeMe

----------------------------------------------------------------------------
(* read_config_file on its own: every file system, every kind of argument *)

\* read_config_file(file) called directly; the caller keeps the document
ReadConfigFileCall(file) ==
    /\ last.op = "init"
    /\ LET rd == read_config_file(fs, heap, file)
       IN last' = [NoCall("read_config_file") EXCEPT
                     !.key = <<file, "">>,
                     !.outcome = rd.outcome,
                     !.read = [done |-> TRUE, outcome |-> rd.outcome,
                               source |-> rd.source,
                               content |-> Content(rd.heap, rd.config)]]
    /\ UNCHANGED <<fs, environ, heap, cache, usage, cli, vin, vout>>

ReadFileSystems ==
    {<<c, h, e>> : c \in {Absent, Invalid, Valid(DocCwd)},
                   h \in {Absent, Invalid, Valid(DocHome)},
                   e \in {Absent, Invalid, Valid(DocExplicit)}}

\* None, "", the settings file named explicitly, a file that may exist, one
\* that does not
ReadFiles == {None, Str(0), Str(1), Str(3), Str(4)}

InitRead ==
    /\ fs \in ReadFileSystems
    /\ environ = EmptyDict
    /\ heap = (DefaultRef :> DefaultContent)
    /\ cache = <<>>
    /\ usage = <<>>
    /\ last = NoCall("init")
    /\ cli = CliIdle
    /\ vin = NoInput
    /\ vout = NoOutput

NextRead == \E file \in ReadFiles : ReadConfigFileCall(file)

SpecRead == InitRead /\ [][NextRead]_vars

LastRead == last.op = "read_config_file"

\* what reading the file at path id p gives
Reads(p, outcome, content) ==
    IF p \in DOMAIN fs /\ fs[p].exists
    THEN IF fs[p].valid
         THEN outcome = "ok" /\ content = fs[p].doc
         ELSE outcome = "TOMLDecodeError"
    ELSE outcome = "FileNotFoundError"

\* C5: the source is the explicit path when one is given (read without an
\* existence check: a path that does not exist fails with a not-found error,
\* no fallback), else the settings file of the current directory when it
\* exists, else the one of the home directory when it exists, else the
\* built-in default; the default is used only when no explicit path is given
\* and neither file exists.  A path is given when the argument is neither None
\* nor the empty string (`if file:`, line 29).
C5_SourcePriority ==
    LastRead =>
        LET file == last.key[1]
            src == last.read.source
            out == last.read.outcome
            doc == last.read.content
        IN /\ Truthy(file) => (src = file /\ Reads(file[2], out, doc))
           /\ (~Truthy(file) /\ fs[1].exists) =>
                 (src = settings_name /\ Reads(1, out, doc))
           /\ (~Truthy(file) /\ ~fs[1].exists /\ fs[2].exists) =>
                 (src = home_settings /\ Reads(2, out, doc))
           /\ (~Truthy(file) /\ ~fs[1].exists /\ ~fs[2].exists) =>
                 (src = None /\ out = "ok" /\ doc = ("zenodo" :> DefaultContent))
           /\ src = None => (~Truthy(file) /\ ~fs[1].exists /\ ~fs[2].exists)

\* C5 witness: both settings files exist with different contents and the
\* discovery returned the one of the current directory
C5_Witness ==
    /\ LastRead
    /\ last.key[1] = None
    /\ fs[1] = Valid(DocCwd)
    /\ fs[2] = Valid(DocHome)
    /\ last.read.content = DocCwd
    /\ last.read.content # DocHome

----------------------------------------------------------------------------
(* The cache under more keys than it holds *)

TrackedKey == <<None, "zenodo">>

\* the explicit paths not yet asked for, lowest first
FreshPaths == {p \in 3..(MaxKeys + 2) :
                  \A i \in 1..Len(usage) : usage[i] # <<Str(p), "zenodo">>}
NextFresh ==
    {Str(p) : p \in {q \in FreshPaths : \A r \in FreshPaths : q <= r}}

InitLRU ==
    /\ fs = [p \in 1..(MaxKeys + 2) |-> IF p <= 2 THEN Absent ELSE Valid(DocHome)]
    /\ environ = EmptyDict
    /\ heap = (DefaultRef :> DefaultContent)
    /\ cache = <<>>
    /\ usage = <<>>
    /\ last = NoCall("init")
    /\ cli = CliIdle
    /\ vin = NoInput
    /\ vout = NoOutput

\* the tracked pair is asked for at any time, also for a section that is
\* missing; the other pairs are asked for one after the other
NextLRU ==
    \/ \E section \in {"zenodo", "nonexistent"} : ConfigSectionCall(None, section)
    \/ \E file \in NextFresh : ConfigSectionCall(file, "zenodo")

SpecLRU == InitLRU /\ [][NextLRU]_vars

\* the pairs config_section returned for since it last returned for key
Since(key) ==
    LET i == CHOOSE j \in 1..Len(usage) : usage[j] = key
    IN {usage[j] : j \in (i + 1)..Len(usage)}

Returned == {usage[i] : i \in 1..Len(usage)}

\* C9 (as claimed): once config_section has returned for a pair, every later
\* call for the pair is answered from the cache, without reading the file,
\* whatever was resolved in between.
C9_NeverEvicted ==
    [][\A key \in Returned :
          (last'.op = "config_section" /\ last'.key = key) =>
              (last'.hit /\ ~last'.read.done)]_vars

\* C9 (amended): once config_section has returned for a pair, a later call
\* for the pair is answered from the cache, without reading the file, as long
\* as it has returned for fewer than maxsize (32) distinct other pairs since
\* its last call for the pair.
C9_CachedUntilEvicted ==
    [][\A key \in Returned :
          (Cardinality(Since(key)) < maxsize
             /\ last'.op = "config_section" /\ last'.key = key) =>
              (last'.hit /\ ~last'.read.done)]_vars

\* C9 witness: the cache is full, pairs have been evicted, and the tracked
\* pair, asked for again in time, is answered from the cache
C9_Witness ==
    /\ LastOk
    /\ last.key = TrackedKey
    /\ last.hit
    /\ Len(cache) = maxsize
    /\ Len(usage) > maxsize

----------------------------------------------------------------------------
(* validate_zenodo_config on its own: every configuration of the two keys *)

PadChars == {" ", "\t"}
Pads == {[i \in 1..n |-> c] : n \in 0..MaxPad, c \in PadChars}
Cores == {<<>>, Tok("a"), ChangeMe}

\* token values: nothing, a token, the placeholder, each with blanks around
Tokens == {l \o c \o r : l \in Pads, c \in Cores, r \in Pads}

Configs == UNION {[D -> Tokens] : D \in SUBSET {ZAT, ZSAT}}

InitValidate ==
    /\ fs = <<Absent, Absent, Absent>>
    /\ environ = EmptyDict
    /\ heap = (DefaultRef :> DefaultContent)
    /\ cache = <<>>
    /\ usage = <<>>
    /\ last = NoCall("init")
    /\ cli = CliIdle
    /\ vin \in [config : Configs, use_sandbox : BOOLEAN]
    /\ vout = NoOutput

NextValidate == Validate

SpecValidate == InitValidate /\ [][NextValidate]_vars

SelectedKey == IF vin.use_sandbox THEN ZSAT ELSE ZAT
OtherKey == IF vin.use_sandbox THEN ZAT ELSE ZSAT

\* the text of the message shows value v
Shows(message, v) == \E k \in DOMAIN message.config : message.config[k] = v

\* C3 (as claimed): when validate_zenodo_config fails, its message (and the
\* one the command line builds from it) names the failed key but shows the
\* value of no token key of the configuration, and any other configuration
\* with the same keys that fails in the same mode yields the same message.
C3_NoTokenInMessage ==
    vout.outcome = "ValueError" =>
        /\ vout.message.key = SelectedKey
        /\ \A k \in DOMAIN vin.config :
              vin.config[k] # <<>> =>
                 /\ ~Shows(vout.message, vin.config[k])
                 /\ ~Shows(ClickMessage(vout.message).error, vin.config[k])
        /\ \A c2 \in Configs :
              LET v2 == validate_zenodo_config(default_zenodo, c2, vin.use_sandbox)
              IN (DOMAIN c2 = DOMAIN vin.config /\ v2.outcome = "ValueError") =>
                    v2.message = vout.message

AllWhitespace(s) == \A i \in 1..Len(s) : s[i] \in Whitespace

\* s is core with whitespace only before and after it
Padded(s, core) ==
    \E i \in 0..Len(s) :
        /\ i + Len(core) <= Len(s)
        /\ SubSeq(s, i + 1, i + Len(core)) = core
        /\ \A j \in 1..i : s[j] \in Whitespace
        /\ \A j \in (i + Len(core) + 1)..Len(s) : s[j] \in Whitespace

\* the configurations that differ from vin.config in the other key only
OtherKeyVariants ==
    {[k \in DOMAIN vin.config \ {OtherKey} |-> vin.config[k]]}
    \cup {[k \in (DOMAIN vin.config) \cup {OtherKey} |->
              IF k = OtherKey THEN t ELSE vin.config[k]] : t \in Tokens}

\* C4: validate_zenodo_config fails exactly when the selected key is absent,
\* empty after trimming whitespace, or after trimming equal to "Change me";
\* the other token key has no effect on the outcome.
C4_ValidationRule ==
    vout.outcome # "" =>
        /\ vout.outcome = "ValueError" <=>
              \/ SelectedKey \notin DOMAIN vin.config
              \/ AllWhitespace(vin.config[SelectedKey])
              \/ Padded(vin.config[SelectedKey], ChangeMe)
        /\ vout.outcome \in {"ValueError", "ok"}
        /\ \A c2 \in OtherKeyVariants :
              validate_zenodo_config(default_zenodo, c2, vin.use_sandbox).outcome
                 = vout.outcome

\* C4 witness: production mode, the production token is the placeholder with
\* a blank on either side and the sandbox token is a real one: rejected
C4_Witness ==
    /\ vout.outcome = "ValueError"
    /\ ~vin.use_sandbox
    /\ DOMAIN vin.config = {ZAT, ZSAT}
    /\ vin.config[ZAT] = <<" ">> \o ChangeMe \o <<" ">>
    /\ vin.config[ZSAT] = Tok("a")

----------------------------------------------------------------------------
(* Invocations of the command line *)

CliEnvironments ==
    UNION {[D -> {Tok("e"), <<" ">>}] : D \in SUBSET {ZAT, ZSAT}}

InitCli ==
    /\ fs \in FileSystems
    /\ environ \in CliEnvironments
    /\ heap = (DefaultRef :> DefaultContent)
    /\ cache = <<>>
    /\ usage = <<>>
    /\ last = NoCall("init")
    /\ cli = CliIdle
    /\ vin = NoInput
    /\ vout = NoOutput

NextCli ==
    \/ \E sandbox \in BOOLEAN, file \in Files : CliGroup(sandbox, file)
    \/ \E ok \in BOOLEAN : Subcommand(ok)

SpecCli == InitCli /\ [][NextCli]_vars

Count(s, e) == Cardinality({i \in 1..Len(s) : s[i] = e})
Position(s, e) == CHOOSE i \in 1..Len(s) : s[i] = e

\* the validation of the configuration the invocation resolved fails
ValidationFails ==
    /\ cli.phase # "idle"
    /\ last.outcome = "ok"
    /\ validate_zenodo_config(default_zenodo, heap[last.ref],
                              cli.ctx_obj["SANDBOX"]).outcome = "ValueError"

\* C7: in every invocation the configuration is resolved once and validated
\* before a sub-command runs; when the validation fails the invocation ends
\* with a non-zero exit status, no sub-command runs and no configuration key
\* is in the context object.
C7_ValidateBeforeDispatch ==
    /\ cli.phase # "idle" =>
          (Count(cli.events, "resolve") = 1 /\ Head(cli.events) = "resolve")
    /\ Count(cli.events, "subcommand") > 0 =>
          /\ Count(cli.events, "validate") = 1
          /\ Position(cli.events, "validate") < Position(cli.events, "subcommand")
          /\ ~ValidationFails
    /\ ValidationFails =>
          /\ cli.phase = "failed"
          /\ cli.exit_code # 0
          /\ Count(cli.events, "subcommand") = 0
          /\ Count(cli.events, "copy") = 0
          /\ DOMAIN cli.ctx_obj = {"SANDBOX"}

\* C7 witness: an invocation whose validation failed
C7_Witness ==
    /\ ValidationFails
    /\ cli.events = <<"resolve", "validate">>
    /\ cli.exit_code = 1

====
